---------------------------- MODULE Spec2Model ----------------------------
(***************************************************************************)
(* A model of glsexpand (src/glsexpand.cpp): the two Spirit X3 grammars    *)
(* (gls_tokens, addition_tokens), the BuildDictionary and Expand visitors  *)
(* and the pipeline of main.                                               *)
(*                                                                         *)
(* Text is a sequence of one-character strings.  The parsers are PEG       *)
(* parsers (ordered choice, greedy repetition, no skipper: main calls      *)
(* x3::parse, not phrase_parse) and are written here as recursive          *)
(* operators that return [ok, pos, attr]: whether the parser matched at    *)
(* position i, the position after the match, and the synthesized           *)
(* attribute.                                                              *)
(***************************************************************************)
EXTENDS Integers, Sequences, FiniteSets, TLC

VARIABLES
    readable,   \* whether boost::filesystem::ifstream in(argv[1]) opened
    input,      \* the characters of the input file
    pc,         \* position of main
    pos,        \* the iterator `first` of the glossary parse
    values,     \* std::vector<Entry> values
    i,          \* index of the entry the running for_each / for visits
    dict,       \* BuildDictionary::dict, then Expand::definitions
    out,        \* std::stringstream out
    expanded,   \* std::string expanded
    cout,       \* what was written to std::cout
    cerr,       \* the diagnostics written to std::cerr, in order
    status,     \* how the process ended
    alts,       \* history: the alternative of gls_tokens that made values[k]
    emitted     \* history: what visiting values[k] appended to out

vars == <<readable, input, pc, pos, values, i, dict, out, expanded, cout,
          cerr, status, alts, emitted>>

---------------------------------------------------------------------------
(* Characters *)

LowerCase ==
    <<"a","b","c","d","e","f","g","h","i","j","k","l","m",
      "n","o","p","q","r","s","t","u","v","w","x","y","z">>

UpperCase ==
    <<"A","B","C","D","E","F","G","H","I","J","K","L","M",
      "N","O","P","Q","R","S","T","U","V","W","X","Y","Z">>

\* x3::alpha (std::isalpha in the C locale)
alpha(c) == \E k \in 1..26 : c = LowerCase[k] \/ c = UpperCase[k]

\* std::toupper(c, std::locale::classic())
toupper(c) ==
    IF \E k \in 1..26 : c = LowerCase[k]
    THEN UpperCase[CHOOSE k \in 1..26 : c = LowerCase[k]]
    ELSE c

KwNewacronym == <<"\\","n","e","w","a","c","r","o","n","y","m">>
KwGls        == <<"\\","g","l","s">>
KwGlspl      == <<"\\","g","l","s","p","l">>
KwUGls       == <<"\\","G","l","s">>
KwUGlspl     == <<"\\","G","l","s","p","l">>
KwUGlsfirst  == <<"\\","G","l","s","f","i","r","s","t">>
KwAddition   == <<"\\","a","d","d","i","t","i","o","n">>

---------------------------------------------------------------------------
(* ast *)

None      == 0
Plural    == 1
Uppercase == 2
First     == 4

ModifiersMask == 3

\* flags & mask for the masks the program uses (ModifiersMask and First)
BitAnd(flags, mask) ==
    IF mask = ModifiersMask THEN flags % 4
    ELSE IF mask = First THEN ((flags \div 4) % 2) * 4
    ELSE 0

\* The variant Entry = variant<std::string, ast::Reference, ast::Abbreviation>,
\* as one record shape: the fields of the alternatives that are not held
\* are empty.
String(v) ==
    [type |-> "string", name |-> <<>>, shortName |-> <<>>, value |-> v,
     flags |-> None]

Reference(n, f) ==
    [type |-> "Reference", name |-> n, shortName |-> <<>>, value |-> <<>>,
     flags |-> f]

Abbreviation(n, s, v) ==
    [type |-> "Abbreviation", name |-> n, shortName |-> s, value |-> v,
     flags |-> None]

---------------------------------------------------------------------------
(* namespace gls: the grammars *)
(*                                                                         *)
(* A parser result is [ok, pos, attr].  A parser that depends on the       *)
(* result of the one before it takes that result as a parameter, so every  *)
(* rule is applied once per position.                                      *)

Fail(p) == [ok |-> FALSE, pos |-> p, attr |-> <<>>]
Ok(p, a) == [ok |-> TRUE, pos |-> p, attr |-> a]

\* a | b on the results of a and b at the same position
Alt(a, b) == IF a.ok THEN a ELSE b

\* the first of the results rs that matched, as an ordered choice of more
\* than two parsers takes it; the last result when none matched
FirstOk(rs) ==
    IF \E k \in 1..Len(rs) : rs[k].ok
    THEN rs[CHOOSE k \in 1..Len(rs) :
                rs[k].ok /\ \A j \in 1..(k - 1) : ~rs[j].ok]
    ELSE rs[Len(rs)]

\* +a from the result r of *a at p: at least one repetition matched (every
\* repetition consumes a character)
Plus(p, r) == IF r.ok /\ r.pos > p THEN r ELSE Fail(p)

\* -a from the result r of a at p
Optional(p, r) == IF r.ok THEN r ELSE Ok(p, <<>>)

\* the characters s[p..q-1] as the attribute of a run that ended at q
Span(s, p, q) == Ok(q, SubSeq(s, p, q - 1))

\* a string literal parser: "\\gls", lit("\\gls"), ...; no attribute
lit(s, p, kw) ==
    IF p + Len(kw) - 1 <= Len(s) /\ SubSeq(s, p, p + Len(kw) - 1) = kw
    THEN Ok(p + Len(kw), <<>>)
    ELSE Fail(p)

RECURSIVE text_end(_, _)
text_end(s, p) ==
    IF p <= Len(s) /\ s[p] # "{" /\ s[p] # "}"
    THEN text_end(s, p + 1)
    ELSE p

\* text_def = lexeme[+(char_ - '{' - '}')]
text(s, p) == Plus(p, Span(s, p, text_end(s, p)))

RECURSIVE nested_group(_, _)
RECURSIVE nested_rest(_, _, _)

\* the operand of + in nested_def: text | nested_group
nested_alt(s, p) == Alt(text(s, p), nested_group(s, p))

\* one more repetition, when r (the operand at p) matched
nested_more(s, p, acc, r) ==
    IF r.ok THEN nested_rest(s, r.pos, acc \o r.attr) ELSE Ok(p, acc)

\* the repetitions of (text | nested_group) from p on; acc is the attribute
\* so far
nested_rest(s, p, acc) == nested_more(s, p, acc, nested_alt(s, p))

\* nested_def = +(text | nested_group)
nested(s, p) == Plus(p, nested_rest(s, p, <<>>))

\* char_('{') >> nested >> char_('}') with n the result of nested: the
\* braces are part of the attribute
nested_group_close(s, p, n) ==
    IF n.ok /\ n.pos <= Len(s) /\ s[n.pos] = "}"
    THEN Ok(n.pos + 1, <<"{">> \o n.attr \o <<"}">>)
    ELSE Fail(p)

\* nested_group_def = char_('{') >> nested >> char_('}')
nested_group(s, p) ==
    IF p <= Len(s) /\ s[p] = "{"
    THEN nested_group_close(s, p, nested(s, p + 1))
    ELSE Fail(p)

\* '{' >> -nested >> '}' with n the result of -nested: the outer braces
\* are literals and are not part of the attribute
group_close(s, p, n) ==
    IF n.pos <= Len(s) /\ s[n.pos] = "}"
    THEN Ok(n.pos + 1, n.attr)
    ELSE Fail(p)

\* group_def = '{' >> -nested >> '}'
group(s, p) ==
    IF p <= Len(s) /\ s[p] = "{"
    THEN group_close(s, p, Optional(p + 1, nested(s, p + 1)))
    ELSE Fail(p)

RECURSIVE options_end(_, _)
options_end(s, p) ==
    IF p <= Len(s) /\ s[p] # "]" THEN options_end(s, p + 1) ELSE p

\* '[' >> *(char_ - ']') >> ']' with q the end of *(char_ - ']')
options_close(s, p, q) ==
    IF q <= Len(s) /\ s[q] = "]"
    THEN Ok(q + 1, SubSeq(s, p + 1, q - 1))
    ELSE Fail(p)

\* options_def = '[' >> *(char_ - ']') >> ']'
options(s, p) ==
    IF p <= Len(s) /\ s[p] = "["
    THEN options_close(s, p, options_end(s, p + 1))
    ELSE Fail(p)

\* r >> g for the result g of group at r.pos: the attribute of the group
\* is appended to the list of the groups matched so far
AppendGroup(r, g) ==
    IF g.ok THEN Ok(g.pos, Append(r.attr, g.attr)) ELSE Fail(r.pos)

\* r >> group
then_group(s, r) == IF r.ok THEN AppendGroup(r, group(s, r.pos)) ELSE r

\* r >> omit[o] for the result o of options at r.pos
OmitAfter(r, o) == IF o.ok THEN Ok(o.pos, r.attr) ELSE Fail(r.pos)

\* r >> omit[options]
then_omit_options(s, r) ==
    IF r.ok THEN OmitAfter(r, options(s, r.pos)) ELSE r

\* the attribute of addition: that of its group
addition_attr(p, r) == IF r.ok THEN Ok(r.pos, r.attr[1]) ELSE Fail(p)

\* addition_def = "\\addition" >> omit[options] >> group
addition(s, p) ==
    addition_attr(p, then_group(s, then_omit_options(s, lit(s, p, KwAddition))))

\* the semantic actions of newacronym_def
newacronym_attr(p, r) ==
    IF r.ok
    THEN Ok(r.pos, Abbreviation(r.attr[1], r.attr[2], r.attr[3]))
    ELSE Fail(p)

\* newacronym_def = "\\newacronym" >> group[name] >> group[shortName]
\*                                 >> group[value]
newacronym(s, p) ==
    newacronym_attr(p,
        then_group(s, then_group(s, then_group(s, lit(s, p, KwNewacronym)))))

\* the semantic action of a reference rule: name and flags
reference_attr(p, r, f) ==
    IF r.ok THEN Ok(r.pos, Reference(r.attr[1], f)) ELSE Fail(p)

\* gls_def = lit("\\gls") >> group[name, flags = None]
gls(s, p) == reference_attr(p, then_group(s, lit(s, p, KwGls)), None)

\* Gls_def = lit("\\Gls") >> group[name, flags = Uppercase]
Gls(s, p) == reference_attr(p, then_group(s, lit(s, p, KwUGls)), Uppercase)

\* glspl_def = lit("\\glspl") >> group[name, flags = Plural]
glspl(s, p) == reference_attr(p, then_group(s, lit(s, p, KwGlspl)), Plural)

\* Glspl_def = lit("\\Glspl") >> group[name, flags = Uppercase | Plural]
Glspl(s, p) ==
    reference_attr(p, then_group(s, lit(s, p, KwUGlspl)), Uppercase + Plural)

\* Glsfirst_def = lit("\\Glsfirst") >> group[name, flags = Uppercase | First]
Glsfirst(s, p) ==
    reference_attr(p, then_group(s, lit(s, p, KwUGlsfirst)), Uppercase + First)

RECURSIVE alpha_end(_, _)
alpha_end(s, p) ==
    IF p <= Len(s) /\ alpha(s[p]) THEN alpha_end(s, p + 1) ELSE p

\* a mutant: alpha in place of +alpha
then_alpha(s, r) ==
    IF r.ok /\ alpha_end(s, r.pos) > r.pos
    THEN Ok(r.pos + 1, <<>>)
    ELSE Fail(r.pos)

\* r >> +alpha
then_alphas(s, r) ==
    IF r.ok /\ alpha_end(s, r.pos) > r.pos
    THEN Ok(alpha_end(s, r.pos), <<>>)
    ELSE Fail(r.pos)

\* gls_other = lit("\\gls") >> +alpha
gls_other(s, p) == then_alphas(s, lit(s, p, KwGls))

\* gls_commands = newacronym | gls | glspl | Gls | Glsfirst | Glspl
gls_commands(s, p) ==
    FirstOk(<<newacronym(s, p), gls(s, p), glspl(s, p), Gls(s, p),
              Glsfirst(s, p), Glspl(s, p)>>)

\* a mutant: no backslash is a literal character
gls_char_no_backslash(s, p) == p <= Len(s) /\ s[p] # "\\"

\* char_ - "\\newacronym" - "\\gls" - "\\glspl" - "\\Gls" - "\\Glspl"
gls_char(s, p) ==
    /\ p <= Len(s)
    /\ ~lit(s, p, KwNewacronym).ok
    /\ ~lit(s, p, KwGls).ok
    /\ ~lit(s, p, KwGlspl).ok
    /\ ~lit(s, p, KwUGls).ok
    /\ ~lit(s, p, KwUGlspl).ok

RECURSIVE gls_chars_end(_, _)
gls_chars_end(s, p) ==
    IF gls_char(s, p) THEN gls_chars_end(s, p + 1) ELSE p

\* the third alternative of gls_tokens: +(char_ - ...)
gls_literal(s, p) == Plus(p, Span(s, p, gls_chars_end(s, p)))

\* the result r of an alternative of gls_tokens as the element it adds to
\* values; alt names the alternative
Element(r, alt, entry) ==
    [ok |-> r.ok, pos |-> r.pos, attr |-> entry, alt |-> alt]

\* the operand of * in gls_tokens:
\*     gls_commands | omit[gls_other] | +(char_ - ...)
\* The element of omit[gls_other] is a default-constructed Entry, which
\* holds an empty std::string.
gls_token(s, p) ==
    FirstOk(<<Element(gls_commands(s, p), "gls_commands",
                      gls_commands(s, p).attr),
              Element(gls_other(s, p), "gls_other", String(<<>>)),
              Element(gls_literal(s, p), "literal",
                      String(gls_literal(s, p).attr))>>)

\* char_ - "\\addition"
addition_char(s, p) == p <= Len(s) /\ ~lit(s, p, KwAddition).ok

RECURSIVE addition_chars_end(_, _)
addition_chars_end(s, p) ==
    IF addition_char(s, p) THEN addition_chars_end(s, p + 1) ELSE p

\* the second alternative of addition_tokens: +(char_ - "\\addition")
addition_literal(s, p) == Plus(p, Span(s, p, addition_chars_end(s, p)))

RECURSIVE addition_rest(_, _, _)

\* one more repetition when r (the operand at p) matched, else eoi
addition_more(s, p, acc, r) ==
    IF r.ok THEN addition_rest(s, r.pos, acc \o r.attr)
    ELSE IF p = Len(s) + 1 THEN Ok(p, acc)
    ELSE Fail(p)

\* the repetitions of (addition | +(char_ - "\\addition")) from p on, then
\* eoi; acc is the std::string the attributes are appended to
addition_rest(s, p, acc) ==
    addition_more(s, p, acc, Alt(addition(s, p), addition_literal(s, p)))

\* addition_tokens = *(addition | +(char_ - "\\addition")) >> eoi
addition_tokens(s) == addition_rest(s, 1, <<>>)

---------------------------------------------------------------------------
(* The visitors *)

\* a mutant: every character is case-mapped
RECURSIVE make_uppercase_all(_)
make_uppercase_all(value) ==
    IF value # <<>>
    THEN <<toupper(value[1])>> \o make_uppercase_all(Tail(value))
    ELSE <<>>

\* make_uppercase: what it writes to the stream
make_uppercase(value) ==
    IF value # <<>> THEN <<toupper(value[1])>> \o Tail(value) ELSE <<>>

\* a mutant: the First bit is not consulted
UsedWithoutFirst(second, flags) == second

\* bool used = pos->second.second && (value.flags & ast::First) != ast::First
Used(second, flags) == second /\ BitAnd(flags, First) # First

\* the switch of Expand::operator()(const ast::Reference&): what it writes
\* for the definition `first` and the flags of the reference
ExpandSwitch(first, used, flags) ==
    LET m == BitAnd(flags, ModifiersMask)
    IN  IF m = None THEN
            IF ~used
            THEN first.value \o <<" ", "(">> \o first.shortName \o <<")">>
            ELSE first.shortName
        ELSE IF m = Plural THEN
            IF ~used
            THEN first.value \o <<"s">> \o <<" ", "(">> \o first.shortName
                 \o <<"s", ")">>
            ELSE first.shortName \o <<"s">>
        ELSE IF m = Uppercase THEN
            IF ~used
            THEN make_uppercase(first.value) \o <<" ", "(">>
                 \o first.shortName \o <<")">>
            ELSE make_uppercase(first.shortName)
        ELSE
            IF ~used
            THEN make_uppercase(first.value) \o <<"s">> \o <<" ", "(">>
                 \o first.shortName \o <<"s", ")">>
            ELSE make_uppercase(first.shortName) \o <<"s">>

\* a mutant: the flag of every name is set, not only that of n
MarkAllUsed(d, n) == [m \in DOMAIN d |-> [d[m] EXCEPT !.second = TRUE]]

\* pos->second.second = true
MarkUsed(d, n) == [d EXCEPT ![n].second = TRUE]

\* a mutant: dict.insert(...), which keeps the entry a name already has
DictInsert(d, value) ==
    [n \in DOMAIN d \cup {value.name} |->
        IF n \in DOMAIN d THEN d[n] ELSE [first |-> value, second |-> FALSE]]

\* dict[value.name] = std::make_pair(value, false)
DictAssign(d, value) ==
    [n \in DOMAIN d \cup {value.name} |->
        IF n = value.name THEN [first |-> value, second |-> FALSE] ELSE d[n]]

Message(m, a) == [msg |-> m, arg |-> a]

---------------------------------------------------------------------------
(* main *)

\* if (!in) { std::cerr << "error: failed to open input " ...; return EXIT_FAILURE; }
MainOpenFailed ==
    /\ pc = "open"
    /\ ~readable
    /\ cerr' = Append(cerr, Message("error: failed to open input", <<>>))
    /\ status' = "EXIT_FAILURE"
    /\ pc' = "exit"
    /\ UNCHANGED <<readable, input, pos, values, i, dict, out, expanded,
                   cout, alts, emitted>>

MainOpened ==
    /\ pc = "open"
    /\ readable
    /\ pc' = "gls_tokens"
    /\ UNCHANGED <<readable, input, pos, values, i, dict, out, expanded,
                   cout, cerr, status, alts, emitted>>

\* one repetition of * in gls_tokens, taken by the alternative alt with the
\* result r
TokenTaken(alt, r) ==
    /\ r.ok
    /\ r.alt = alt
    /\ values' = Append(values, r.attr)
    /\ pos' = r.pos
    /\ alts' = Append(alts, alt)
    /\ UNCHANGED <<readable, input, pc, i, dict, out, expanded, cout, cerr,
                   status, emitted>>

\* a repetition that takes gls_commands
TokenCommand ==
    /\ pc = "gls_tokens"
    /\ TokenTaken("gls_commands", gls_token(input, pos))

\* a repetition that takes omit[gls_other]
TokenOther ==
    /\ pc = "gls_tokens"
    /\ TokenTaken("gls_other", gls_token(input, pos))

\* a repetition that takes +(char_ - ...)
TokenLiteral ==
    /\ pc = "gls_tokens"
    /\ TokenTaken("literal", gls_token(input, pos))

\* * ends where no alternative matches; >> eoi matches: parsed is true
MainParsed ==
    /\ pc = "gls_tokens"
    /\ ~gls_token(input, pos).ok
    /\ pos = Len(input) + 1
    /\ pc' = "build"
    /\ i' = 1
    /\ UNCHANGED <<readable, input, pos, values, dict, out, expanded, cout,
                   cerr, status, alts, emitted>>

\* >> eoi fails:
\* if (!parsed) { std::cerr << "error: failed to parse the input\n"; return EXIT_FAILURE; }
MainParseFailed ==
    /\ pc = "gls_tokens"
    /\ ~gls_token(input, pos).ok
    /\ pos # Len(input) + 1
    /\ cerr' = Append(cerr, Message("error: failed to parse the input", <<>>))
    /\ status' = "EXIT_FAILURE"
    /\ pc' = "exit"
    /\ UNCHANGED <<readable, input, pos, values, i, dict, out, expanded,
                   cout, alts, emitted>>

\* BuildDictionary::operator()(const std::string&) and (const ast::Reference&)
BuildIgnore ==
    /\ pc = "build"
    /\ i <= Len(values)
    /\ values[i].type \in {"string", "Reference"}
    /\ i' = i + 1
    /\ UNCHANGED <<readable, input, pc, pos, values, dict, out, expanded,
                   cout, cerr, status, alts, emitted>>

\* BuildDictionary::operator()(const ast::Abbreviation&)
BuildAbbreviation ==
    /\ pc = "build"
    /\ i <= Len(values)
    /\ values[i].type = "Abbreviation"
    /\ dict' = DictAssign(dict, values[i])
    /\ cerr' = IF values[i].value = <<>>
               THEN Append(cerr, Message("warning: description is empty",
                                         values[i].name))
               ELSE cerr
    /\ i' = i + 1
    /\ UNCHANGED <<readable, input, pc, pos, values, out, expanded, cout,
                   status, alts, emitted>>

\* std::for_each returns; Expand e{out, dict.dict}
BuildDone ==
    /\ pc = "build"
    /\ i = Len(values) + 1
    /\ pc' = "expand"
    /\ i' = 1
    /\ UNCHANGED <<readable, input, pos, values, dict, out, expanded, cout,
                   cerr, status, alts, emitted>>

\* a mutant: the Expander writes to std::cout
ExpandStringToCout ==
    /\ pc = "expand"
    /\ i <= Len(values)
    /\ values[i].type = "string"
    /\ out' = out \o values[i].value
    /\ cout' = cout \o values[i].value
    /\ emitted' = Append(emitted, values[i].value)
    /\ i' = i + 1
    /\ UNCHANGED <<readable, input, pc, pos, values, dict, expanded, cerr,
                   status, alts>>

\* Expand::operator()(const std::string&)
ExpandString ==
    /\ pc = "expand"
    /\ i <= Len(values)
    /\ values[i].type = "string"
    /\ out' = out \o values[i].value
    /\ emitted' = Append(emitted, values[i].value)
    /\ i' = i + 1
    /\ UNCHANGED <<readable, input, pc, pos, values, dict, expanded, cout,
                   cerr, status, alts>>

\* Expand::operator()(const ast::Abbreviation&)
ExpandAbbreviation ==
    /\ pc = "expand"
    /\ i <= Len(values)
    /\ values[i].type = "Abbreviation"
    /\ emitted' = Append(emitted, <<>>)
    /\ i' = i + 1
    /\ UNCHANGED <<readable, input, pc, pos, values, dict, out, expanded,
                   cout, cerr, status, alts>>

\* Expand::operator()(const ast::Reference&), pos != definitions.end()
ExpandReference ==
    /\ pc = "expand"
    /\ i <= Len(values)
    /\ values[i].type = "Reference"
    /\ values[i].name \in DOMAIN dict
    /\ LET e == dict[values[i].name]
           w == ExpandSwitch(e.first, Used(e.second, values[i].flags),
                             values[i].flags)
       IN  /\ out' = out \o w
           /\ emitted' = Append(emitted, w)
    /\ dict' = MarkUsed(dict, values[i].name)
    /\ i' = i + 1
    /\ UNCHANGED <<readable, input, pc, pos, values, expanded, cout, cerr,
                   status, alts>>

\* Expand::operator()(const ast::Reference&), the else branch:
\* throw std::runtime_error("missing definition for " + value.name).
\* Nothing in main catches it, so std::terminate ends the process; whether
\* the runtime's terminate handler prints what() is up to the
\* implementation.
ExpandMissing ==
    /\ pc = "expand"
    /\ i <= Len(values)
    /\ values[i].type = "Reference"
    /\ values[i].name \notin DOMAIN dict
    /\ status' = "terminate"
    /\ cerr' \in {cerr,
                  Append(cerr, Message("terminate called after throwing std::runtime_error",
                                       values[i].name))}
    /\ pc' = "exit"
    /\ UNCHANGED <<readable, input, pos, values, i, dict, out, expanded,
                   cout, alts, emitted>>

\* the for loop over values ends; std::string gls = out.str()
ExpandDone ==
    /\ pc = "expand"
    /\ i = Len(values) + 1
    /\ pc' = "addition_tokens"
    /\ UNCHANGED <<readable, input, pos, values, i, dict, out, expanded,
                   cout, cerr, status, alts, emitted>>

AdditionParsed(r) ==
    /\ r.ok
    /\ expanded' = r.attr
    /\ pc' = "copy"
    /\ UNCHANGED <<readable, input, pos, values, i, dict, out, cout, cerr,
                   status, alts, emitted>>

\* parsed = parse(gls.begin(), gls.end(), gls::addition_tokens, expanded)
MainAdditionParsed ==
    /\ pc = "addition_tokens"
    /\ AdditionParsed(addition_tokens(out))

\* if (!parsed) { std::cerr << "error: failed to parse the input\n"; return EXIT_FAILURE; }
MainAdditionFailed ==
    /\ pc = "addition_tokens"
    /\ ~addition_tokens(out).ok
    /\ cerr' = Append(cerr, Message("error: failed to parse the input", <<>>))
    /\ status' = "EXIT_FAILURE"
    /\ pc' = "exit"
    /\ UNCHANGED <<readable, input, pos, values, i, dict, out, expanded,
                   cout, alts, emitted>>

\* std::copy(expanded.begin(), expanded.end(), ...(std::cout)); main returns
MainCopy ==
    /\ pc = "copy"
    /\ cout' = cout \o expanded
    /\ status' = "EXIT_SUCCESS"
    /\ pc' = "exit"
    /\ UNCHANGED <<readable, input, pos, values, i, dict, out, expanded,
                   cerr, alts, emitted>>

Next ==
    \/ MainOpenFailed
    \/ MainOpened
    \/ TokenCommand
    \/ TokenOther
    \/ TokenLiteral
    \/ MainParsed
    \/ MainParseFailed
    \/ BuildIgnore
    \/ BuildAbbreviation
    \/ BuildDone
    \/ ExpandString
    \/ ExpandAbbreviation
    \/ ExpandReference
    \/ ExpandMissing
    \/ ExpandDone
    \/ MainAdditionParsed
    \/ MainAdditionFailed
    \/ MainCopy

---------------------------------------------------------------------------
(* Inputs.  An input is a concatenation of at most a bounded number of     *)
(* pieces of text drawn from a small set; the parsers then work on its     *)
(* characters.                                                             *)

\* the concatenation of the first n pieces of f
RECURSIVE Concat(_, _)
Concat(f, n) == IF n = 0 THEN <<>> ELSE Concat(f, n - 1) \o f[n]

Texts(pieces, max) ==
    UNION {{Concat(f, n) : f \in [1..n -> pieces]} : n \in 0..max}

Br(t) == <<"{">> \o t \o <<"}">>

\* The scenarios of the specification's section 8, and one input for each
\* way a run can end.
Scenarios ==
    { \* \newacronym{c}{CPU}{unit} \gls{c} and \Glspl{c}.
      KwNewacronym \o Br(<<"c">>) \o Br(<<"C","P","U">>) \o Br(<<"u","n","i","t">>)
         \o <<" ">> \o KwGls \o Br(<<"c">>) \o <<" ","a","n","d"," ">> \o KwUGlspl \o Br(<<"c">>)
         \o <<".">>,
      \* \newacronym{c}{CPU}{unit}\gls{c} \addition[new]{\gls{c} fact}\glsreset
      KwNewacronym \o Br(<<"c">>) \o Br(<<"C","P","U">>) \o Br(<<"u","n","i","t">>)
         \o KwGls \o Br(<<"c">>) \o <<" ">> \o KwAddition \o <<"[","n","e","w","]">>
         \o Br(KwGls \o Br(<<"c">>) \o <<" ","f","a","c","t">>) \o KwGls \o <<"r","e","s","e","t">>,
      \* \gls{cpu
      KwGls \o <<"{","c","p","u">>,
      \* \gls{widget}
      KwGls \o Br(<<"w","i","d","g","e","t">>),
      \* \addition{x}
      KwAddition \o Br(<<"x">>) }

InitWith(inputs) ==
    /\ \/ readable = FALSE /\ input = <<>>
       \/ readable = TRUE /\ input \in inputs
    /\ pc = "open"
    /\ pos = 1
    /\ values = <<>>
    /\ i = 1
    /\ dict = <<>>
    /\ out = <<>>
    /\ expanded = <<>>
    /\ cout = <<>>
    /\ cerr = <<>>
    /\ status = "running"
    /\ alts = <<>>
    /\ emitted = <<>>

\* Documents of whole commands: two definitions of a (the second with an
\* empty long form), one of b, every reference form to a, a reference to b.
MaxCommands == 3

Commands ==
    { KwNewacronym \o Br(<<"a">>) \o Br(<<"x","Y">>) \o Br(<<"l","o"," ","n","g">>),
      KwNewacronym \o Br(<<"a">>) \o Br(<<"Z">>) \o Br(<<>>),
      KwNewacronym \o Br(<<"b">>) \o Br(<<"b","s">>) \o Br(<<"B","e","e">>),
      KwGls \o Br(<<"a">>),
      KwGlspl \o Br(<<"a">>),
      KwUGls \o Br(<<"a">>),
      KwUGlspl \o Br(<<"a">>),
      KwUGlsfirst \o Br(<<"a">>),
      KwGls \o Br(<<"b">>),
      <<"t">> }

Init == InitWith(Texts(Commands, MaxCommands) \cup Scenarios)

Spec == Init /\ [][Next]_vars

\* Inputs of command names, letters and braces: the keyword \gls or \Gls,
\* then letters, then the beginning, the whole or nothing of a group.
MaxLex == 4

LexPieces ==
    { KwGls, KwUGls, <<"p","l">>, <<"x">>, <<"{">>, <<"}">> }

InitLex == InitWith(Texts(LexPieces, MaxLex) \cup Scenarios)

SpecLex == InitLex /\ [][Next]_vars

\* Inputs of \addition[o] and braces, and inputs of text that is close to
\* a command but holds none: lone backslashes, \gl, braces, brackets.
MaxAdd == 6

AddPieces ==
    { KwAddition \o <<"[","o","]">>, <<"{">>, <<"}">>, <<"A">> }

MaxLit == 4

LitPieces ==
    { <<"\\">>, <<"\\","g","l">>, <<"s">>, <<"{">>, <<"}">>, <<"[">> }

InitText ==
    InitWith(Texts(AddPieces, MaxAdd) \cup Texts(LitPieces, MaxLit)
             \cup Scenarios)

SpecText == InitText /\ [][Next]_vars

---------------------------------------------------------------------------
(* The vocabulary of the claims *)

IsReference(k) == values[k].type = "Reference"
IsDefinition(k, n) == values[k].type = "Abbreviation" /\ values[k].name = n

DefinedNames ==
    {values[k].name : k \in {j \in 1..Len(values) : values[j].type = "Abbreviation"}}

\* the textually-last Definition of n in the Document
LastDefinition(n) ==
    values[CHOOSE k \in 1..Len(values) :
               IsDefinition(k, n) /\ \A j \in (k + 1)..Len(values) : ~IsDefinition(j, n)]

\* an earlier ReferenceMark to the name of entry k
ReferencedBefore(k) ==
    \E j \in 1..(k - 1) : IsReference(j) /\ values[j].name = values[k].name

HasPlural(flags)    == flags % 2 = 1
HasUppercase(flags) == (flags \div 2) % 2 = 1
HasFirst(flags)     == (flags \div 4) % 2 = 1

\* upper-first: only the first character is case-mapped
UpperFirst(t) ==
    IF t = <<>> THEN <<>> ELSE <<toupper(t[1])>> \o SubSeq(t, 2, Len(t))

Cased(t, flags)  == IF HasUppercase(flags) THEN UpperFirst(t) ELSE t
Plurald(t, flags) == IF HasPlural(flags) THEN t \o <<"s">> ELSE t

\* the two columns of the modifier grid for long form L and short form S
FirstUseForm(L, S, flags) ==
    Plurald(Cased(L, flags), flags) \o <<" ", "(">> \o Plurald(S, flags) \o <<")">>

SubsequentForm(S, flags) == Plurald(Cased(S, flags), flags)

\* the glossary parse consumed the whole input
GlossaryParsed == readable /\ pc # "open" /\ pc # "gls_tokens" /\ pos = Len(input) + 1

\* the build pass is over
BuildFinished ==
    \/ pc \in {"expand", "addition_tokens", "copy"}
    \/ status \in {"terminate", "EXIT_SUCCESS"}

\* the run stopped in the Expander, at a ReferenceMark whose name has no
\* entry in the Dictionary
StoppedAtUndefined ==
    /\ pc = "exit"
    /\ GlossaryParsed
    /\ i <= Len(values)
    /\ IsReference(i)
    /\ values[i].name \notin DOMAIN dict

\* the position after the balanced group that opens at p, or 0: braces are
\* counted, whatever stands between them
RECURSIVE Matching(_, _, _)
Matching(s, q, depth) ==
    IF q > Len(s) THEN 0
    ELSE IF s[q] = "{" THEN Matching(s, q + 1, depth + 1)
    ELSE IF s[q] = "}" THEN (IF depth = 1 THEN q + 1 ELSE Matching(s, q + 1, depth - 1))
    ELSE Matching(s, q + 1, depth)

BalancedEnd(s, p) == IF p <= Len(s) /\ s[p] = "{" THEN Matching(s, p + 1, 1) ELSE 0

\* the position after n balanced groups in a row from p on, or 0
RECURSIVE GroupsEnd(_, _, _)
GroupsEnd(s, p, n) ==
    IF n = 0 THEN p
    ELSE IF BalancedEnd(s, p) = 0 THEN 0
    ELSE GroupsEnd(s, BalancedEnd(s, p), n - 1)

StartsWith(s, p, kw) ==
    p + Len(kw) - 1 <= Len(s) /\ SubSeq(s, p, p + Len(kw) - 1) = kw

---------------------------------------------------------------------------
(* C1 *)

\* C1: when the Expander visits a ReferenceMark whose name is not in the
\* Dictionary, the run ends as a parse failure does: the program writes a
\* diagnostic naming the name to standard error, exits with EXIT_FAILURE
\* and writes nothing to standard output; the condition never ends the
\* process as an unhandled fault.
C1_UndefinedReferenceReported ==
    StoppedAtUndefined =>
        /\ status = "EXIT_FAILURE"
        /\ \E k \in 1..Len(cerr) : cerr[k].arg = values[i].name
        /\ cout = <<>>

---------------------------------------------------------------------------
(* C2 *)

\* C2: a rendered ReferenceMark to a defined name has the first-use form
\* (long form, then the short form in parentheses) exactly when it carries
\* the First bit or no earlier ReferenceMark to the same name stands
\* before it in the Document, and the subsequent-use form (short form
\* alone) otherwise.
C2_FirstUseRule ==
    \A k \in 1..Len(emitted) :
        IsReference(k) =>
            LET d == dict[values[k].name].first
                f == values[k].flags
            IN  IF HasFirst(f) \/ ~ReferencedBefore(k)
                THEN emitted[k] = FirstUseForm(d.value, d.shortName, f)
                ELSE emitted[k] = SubsequentForm(d.shortName, f)

\* a plain reference rendered after a First-flagged reference to the same
\* name
C2_Witness ==
    \E j, k \in 1..Len(emitted) :
        /\ j < k
        /\ IsReference(j) /\ HasFirst(values[j].flags)
        /\ IsReference(k) /\ values[k].flags = None
        /\ values[j].name = values[k].name

---------------------------------------------------------------------------
(* C3 *)

\* C3: after the build pass the Dictionary holds exactly one entry per
\* defined name, the textually-last Definition of that name, with usedFlag
\* false when the expansion starts; the Expander writes nothing before the
\* build pass is over; every rendered ReferenceMark is rendered from the
\* forms of the last Definition of its name, wherever that Definition
\* stands; and the run stops at a reference only if its name is defined
\* nowhere in the Document.
C3_LastDefinitionWins ==
    /\ pc = "build" => emitted = <<>> /\ out = <<>>
    /\ BuildFinished =>
          /\ DOMAIN dict = DefinedNames
          /\ \A n \in DefinedNames : dict[n].first = LastDefinition(n)
    /\ (pc = "expand" /\ i = 1) => \A n \in DOMAIN dict : ~dict[n].second
    /\ \A k \in 1..Len(emitted) :
          IsReference(k) =>
              LET d == LastDefinition(values[k].name)
              IN  emitted[k] \in {FirstUseForm(d.value, d.shortName, values[k].flags),
                                  SubsequentForm(d.shortName, values[k].flags)}
    /\ status = "terminate" => values[i].name \notin DefinedNames

\* a rendered reference that stands before both Definitions of its name
C3_Witness ==
    \E k \in 1..Len(emitted) :
        /\ IsReference(k)
        /\ \E j1, j2 \in (k + 1)..Len(values) :
              /\ j1 < j2
              /\ IsDefinition(j1, values[k].name)
              /\ IsDefinition(j2, values[k].name)
              /\ values[j1] # values[j2]

---------------------------------------------------------------------------
(* C4 *)

Keywords ==
    <<KwNewacronym, KwGls, KwGlspl, KwUGls, KwUGlspl, KwUGlsfirst>>

\* the number of groups a command takes
Arity(kw) == IF kw = KwNewacronym THEN 3 ELSE 1

\* the command name at p is kw: a backslash and the longest run of letters
\* after it
CommandAt(s, p, kw) ==
    /\ StartsWith(s, p, kw)
    /\ ~(p + Len(kw) <= Len(s) /\ alpha(s[p + Len(kw)]))

\* the number of groups open at p
RECURSIVE Depth(_, _)
Depth(s, p) ==
    IF p <= 1 THEN 0
    ELSE IF s[p - 1] = "{" THEN Depth(s, p - 1) + 1
    ELSE IF s[p - 1] = "}" /\ Depth(s, p - 1) > 0 THEN Depth(s, p - 1) - 1
    ELSE Depth(s, p - 1)

\* C4: the glossary pass fails whenever a recognized command keyword
\* stands in the input (outside every group) without its number of
\* balanced groups right after it.
C4_MalformedCommandFails ==
    GlossaryParsed =>
        \A p \in 1..Len(input) : \A k \in 1..Len(Keywords) :
            (CommandAt(input, p, Keywords[k]) /\ Depth(input, p) = 0) =>
                GroupsEnd(input, p + Len(Keywords[k]), Arity(Keywords[k])) # 0

---------------------------------------------------------------------------
(* C5 *)

\* C5: standard output is written only by a run in which every stage
\* succeeded, and then it holds exactly the unwrapped text of the whole
\* expansion; a run that failed, and a run that is not over, has written
\* nothing to it.
C5_NoPartialOutput ==
    /\ status # "EXIT_SUCCESS" => cout = <<>>
    /\ status = "EXIT_SUCCESS" =>
          /\ GlossaryParsed
          /\ BuildFinished
          /\ Len(emitted) = Len(values)
          /\ addition_tokens(out).ok
          /\ cout = addition_tokens(out).attr

\* a run that wrote text with an unwrapped addition to standard output
C5_Witness ==
    /\ status = "EXIT_SUCCESS"
    /\ cout # <<>>
    /\ cout # out

---------------------------------------------------------------------------
(* C6 *)

\* the position of the first "]" from q on, or 0
RECURSIVE FirstClose(_, _)
FirstClose(s, q) ==
    IF q > Len(s) THEN 0 ELSE IF s[q] = "]" THEN q ELSE FirstClose(s, q + 1)

\* the position after the occurrence \addition[options]{content} at p, or
\* 0 when the text at p is not such an occurrence
OccurrenceEnd(s, p) ==
    LET b == p + Len(KwAddition)
        c == FirstClose(s, b + 1)
    IN  IF StartsWith(s, p, KwAddition) /\ b <= Len(s) /\ s[b] = "[" /\ c # 0
        THEN BalancedEnd(s, c + 1)
        ELSE 0

\* the content of the occurrence at p that ends before e: what stands
\* between its outermost braces
Content(s, p, e) == SubSeq(s, FirstClose(s, p + Len(KwAddition) + 1) + 2, e - 2)

\* s from p on with every occurrence replaced by its content; ok is false
\* when \addition stands somewhere without being such an occurrence
RECURSIVE Unwrapped(_, _)
Unwrapped(s, p) ==
    IF p > Len(s) THEN [ok |-> TRUE, text |-> <<>>]
    ELSE IF StartsWith(s, p, KwAddition)
    THEN LET e == OccurrenceEnd(s, p)
         IN  IF e = 0 THEN [ok |-> FALSE, text |-> <<>>]
             ELSE [ok |-> Unwrapped(s, e).ok,
                   text |-> Content(s, p, e) \o Unwrapped(s, e).text]
    ELSE [ok |-> Unwrapped(s, p + 1).ok,
          text |-> <<s[p]>> \o Unwrapped(s, p + 1).text]

\* the Expander visited every entry and the addition parse ran
AdditionParseRan ==
    /\ GlossaryParsed
    /\ Len(emitted) = Len(values)
    /\ pc \in {"copy", "exit"}
    /\ status # "terminate"

\* C6: the Addition Unwrapper replaces every occurrence
\* \addition[options]{content} in the Expander's output by content, with
\* the outermost brace pair removed, the options dropped and the groups
\* nested in content kept with their braces at any depth, and passes the
\* text outside the occurrences through unchanged and in order.
C6_AdditionUnwrapped ==
    (AdditionParseRan /\ Unwrapped(out, 1).ok) =>
        /\ status # "EXIT_FAILURE"
        /\ expanded = Unwrapped(out, 1).text

---------------------------------------------------------------------------
(* C7 *)

\* C7: the text a ReferenceMark to a defined name adds to the output is
\* the entry of the modifier grid: the row by Plural and Uppercase (the
\* First bit selects no row), the column first-use when usedFlag is false
\* or the First bit is set and subsequent-use otherwise; upper-first maps
\* the first character only and is applied before the plural "s"; the
\* short form in parentheses is never case-mapped.
C7_ModifierGrid ==
    [][ (pc = "expand" /\ i <= Len(values) /\ IsReference(i)
            /\ values[i].name \in DOMAIN dict) =>
          LET e == dict[values[i].name]
              f == values[i].flags
          IN  out' = out \o (IF ~e.second \/ HasFirst(f)
                             THEN FirstUseForm(e.first.value, e.first.shortName, f)
                             ELSE SubsequentForm(e.first.shortName, f)) ]_vars

\* an Uppercase+Plural reference rendered first-use, and one rendered
\* subsequent-use, from forms of more than one character
C7_Witness ==
    \E j, k \in 1..Len(emitted) :
        /\ j < k
        /\ IsReference(j) /\ IsReference(k)
        /\ values[j].name = values[k].name
        /\ values[j].flags = Uppercase + Plural
        /\ values[k].flags = Uppercase + Plural
        /\ ~ReferencedBefore(j)
        /\ Len(dict[values[j].name].first.value) > 1
        /\ Len(dict[values[j].name].first.shortName) > 1

---------------------------------------------------------------------------
(* C8 *)

\* no \newacronym, no token of the \gls family and no \addition in s
NoCommand(s) ==
    \A p \in 1..Len(s) :
        /\ ~StartsWith(s, p, KwNewacronym)
        /\ ~StartsWith(s, p, KwGls)
        /\ ~StartsWith(s, p, KwUGls)
        /\ ~StartsWith(s, p, KwAddition)

\* C8: a readable input that holds no command passes every stage without
\* failure and the output is the input.
C8_LiteralIdentity ==
    (readable /\ NoCommand(input)) =>
        /\ status \in {"running", "EXIT_SUCCESS"}
        /\ pc = "exit" => cout = input

\* the run of an input with a brace, a bracket and a backslash but no
\* command is over
C8_Witness ==
    /\ pc = "exit"
    /\ readable
    /\ NoCommand(input)
    /\ \E p, q, r \in 1..Len(input) :
          input[p] = "{" /\ input[q] = "[" /\ input[r] = "\\"

---------------------------------------------------------------------------
(* C9 *)

RECURSIVE LettersEnd(_, _)
LettersEnd(s, p) == IF p <= Len(s) /\ alpha(s[p]) THEN LettersEnd(s, p + 1) ELSE p

\* at p stands \gls followed by at least one letter, and not one of the
\* five reference forms
OtherTokenAt(s, p) ==
    /\ StartsWith(s, p, KwGls)
    /\ LettersEnd(s, p + Len(KwGls)) > p + Len(KwGls)
    /\ ~(CommandAt(s, p, KwGlspl) /\ BalancedEnd(s, p + Len(KwGlspl)) # 0)

\* C9: a token \gls followed by letters that is not one of the five
\* reference forms is consumed up to its last letter without a parse
\* failure, adds no Definition and no ReferenceMark to the Document, and
\* the visits of its entry change neither the Dictionary nor the output
\* and do not stop the run.
C9_OtherTokenDiscarded ==
    [][ /\ (pc = "gls_tokens" /\ OtherTokenAt(input, pos)) =>
              /\ pc' = "gls_tokens"
              /\ pos' = LettersEnd(input, pos + Len(KwGls))
              /\ Len(values') = Len(values) + 1
              /\ SubSeq(values', 1, Len(values)) = values
              /\ values'[Len(values')].type = "string"
              /\ values'[Len(values')].value = <<>>
        /\ (pc \in {"build", "expand"} /\ i <= Len(values) /\ alts[i] = "gls_other") =>
              /\ pc' = pc
              /\ i' = i + 1
              /\ dict' = dict
              /\ out' = out
              /\ status' = status ]_vars

\* a run that ended well with a discarded token between two other entries
C9_Witness ==
    /\ status = "EXIT_SUCCESS"
    /\ \E k \in 2..(Len(values) - 1) : alts[k] = "gls_other"

---------------------------------------------------------------------------
(* C10 *)

\* C10: from the end of the build pass on, the key set of the Dictionary
\* is that of the defined names and never changes, no entry's Definition
\* changes, a usedFlag that is true stays true, and the only usedFlag a
\* step changes is that of the name the visited ReferenceMark refers to.
C10_DictionaryStable ==
    [][ BuildFinished =>
          /\ DOMAIN dict = DefinedNames
          /\ DOMAIN dict' = DOMAIN dict
          /\ \A n \in DOMAIN dict :
                /\ dict'[n].first = dict[n].first
                /\ dict[n].second => dict'[n].second
                /\ dict'[n].second # dict[n].second =>
                      /\ pc = "expand"
                      /\ i <= Len(values)
                      /\ IsReference(i)
                      /\ values[i].name = n ]_vars

\* every entry was visited, the flag of one name was set and that of
\* another was not
C10_Witness ==
    /\ pc = "addition_tokens"
    /\ \E n, m \in DOMAIN dict : dict[n].second /\ ~dict[m].second

===========================================================================
